---- MODULE Spec2Model ----
(***************************************************************************)
(* FnO.py: a Streamlit page that fetches Google News articles for the      *)
(* selected F&O stocks (fetch_news_for_stock, cached by st.cache_data),    *)
(* accumulates them, drops error placeholders, de-duplicates, sorts by     *)
(* publication date and offers the table as CSV.                           *)
(*                                                                         *)
(* Python values are modelled as strings; None is the string None below.   *)
(* Points in time are positive integers and NaT is -1.                     *)
(*                                                                         *)
(* Spec        one press of "Fetch News" on a fresh page, the backend      *)
(*             answering each query with any response over RawItems.       *)
(* SpecSession several presses sharing the st.cache_data cache, the        *)
(*             backend answering over SessionItems.                        *)
(* SpecFn      one direct call of fetch_news_for_stock, with any label.    *)
(***************************************************************************)
EXTENDS Integers, Sequences, FiniteSets, TLC

\* Bounds of the model.
MaxItems == 2       \* records in one backend response
MaxClicks == 2      \* presses of "Fetch News" in one session (SpecSession)
MaxCalls == 2       \* backend queries in one session (SpecSession)

None == "<None>"
NaT == -1

\* Two names of the configured list stand for the 34.
FNO_STOCKS == <<"Infosys", "Wipro">>

PERIOD_OPTIONS == <<"1 Month", "3 Months", "6 Months">>

\* A label the radio widget never produces, for direct calls of the helpers.
OtherLabels == {"2 Weeks"}

\* Values of the number_input (min 5, max 100, default 30).
MaxResultsChoices == {30}

Range(s) == {s[i] : i \in 1..Len(s)}

SeqsUpTo(S, n) == UNION {[1..k -> S] : k \in 0..n}

----------------------------------------------------------------------------
\* Strings and dates

\* `if published:` and `a or b`: None and the empty string are falsy.
Truthy(v) == v \notin {None, ""}

PyOr(a, b) == IF Truthy(a) THEN a ELSE b

\* The date strings of the model: as the feed gives them, as
\* parser.parse(..).isoformat() gives them, and the instant they denote.
D5 == "Tue, 05 Mar 2024 08:00:00 GMT"
D6 == "Wed, 06 Mar 2024 08:00:00 GMT"

DATES ==
  { [raw |-> D5, iso |-> "2024-03-05T08:00:00+00:00", t |-> 5],
    [raw |-> D6, iso |-> "2024-03-06T08:00:00+00:00", t |-> 6] }

\* dateutil's parser.parse followed by isoformat(); "ParserError" stands for
\* the exception parse raises on a string that holds no date.
parse_isoformat(s) ==
  IF \E d \in DATES : d.raw = s
  THEN (CHOOSE d \in DATES : d.raw = s).iso
  ELSE "ParserError"

\* pd.to_datetime(.., utc=True, errors="coerce") of one cell.
to_datetime(v) ==
  IF \E d \in DATES : v \in {d.iso, d.raw}
  THEN (CHOOSE d \in DATES : v \in {d.iso, d.raw}).t
  ELSE NaT

\* The model's strings that begin with "ERROR:".
ERROR_PREFIXED ==
  { "ERROR: HTTP Error 429", "ERROR: 'str' object has no attribute 'get'",
    "ERROR: trading halted" }

\* Series.str.startswith("ERROR:", na=False)
startswith_ERROR(title) == title \in ERROR_PREFIXED

\* f"ERROR: {e}"
ErrorTitle(e) ==
  CASE e = "HTTP Error 429" -> "ERROR: HTTP Error 429"
    [] e = "'str' object has no attribute 'get'" ->
         "ERROR: 'str' object has no attribute 'get'"

----------------------------------------------------------------------------
\* The backend (GNews.get_news) and its records

RawItem(title, url, pdate, published, publisher) ==
  [dict |-> TRUE, title |-> title, url |-> url, published_date |-> pdate,
   published |-> published, publisher |-> publisher, description |-> "d"]

\* An element of the response that is no mapping: item.get raises.
BadItem ==
  [dict |-> FALSE, title |-> None, url |-> None, published_date |-> None,
   published |-> None, publisher |-> None, description |-> None]

RawItems ==
  { RawItem("Q4 profit rises", "u1", D5, None, "ET"),
    RawItem("Deal win", "u1", None, D6, "Mint"),
    RawItem("ERROR: trading halted", "u1", D6, None, "ET"),
    RawItem("Market wrap", None, "N/A", None, None),
    RawItem("Rupee falls", None, D5, None, "Mint"),
    RawItem("Fund flows", "u2", "", None, "ET") }

\* The records a session's backend serves (SpecSession).
SessionItems == { RawItem("Q4 profit rises", "u1", D5, None, "ET") }

NoExc == ""

\* What one get_news call does: raise exc, or return raw.
ResponsesOver(items) ==
  {[exc |-> NoExc, raw |-> s] : s \in SeqsUpTo(items, MaxItems)}
  \cup {[exc |-> NoExc, raw |-> Append(s, BadItem)] : s \in SeqsUpTo(items, MaxItems - 1)}
  \cup {[exc |-> "HTTP Error 429", raw |-> <<>>]}

Responses == ResponsesOver(RawItems)

SessionResponses == ResponsesOver(SessionItems)

----------------------------------------------------------------------------
\* Helper methods

period_to_gnews_period(period_label) ==
  CASE period_label = "1 Month" -> "1m"
    [] period_label = "3 Months" -> "3m"
    [] period_label = "6 Months" -> "6m"
    [] OTHER -> "1m"

\* published_iso_of with the raw value dropped when it does not parse.
published_iso_dropped(item) ==
  LET published == PyOr(item.published_date, item.published)
  IN  IF Truthy(published) /\ parse_isoformat(published) # "ParserError"
      THEN parse_isoformat(published)
      ELSE None

\* Lines 60-69: the published date of one raw record.
published_iso_of(item) ==
  LET published == PyOr(item.published_date, item.published)
  IN  IF Truthy(published)
      THEN IF parse_isoformat(published) # "ParserError"
           THEN parse_isoformat(published)
           ELSE published
      ELSE None

\* Lines 71-78.
Article(stock, item) ==
  [stock |-> stock, title |-> item.title, url |-> item.url,
   publisher |-> item.publisher, published |-> published_iso_of(item),
   description |-> item.description]

\* Line 83.
ErrorEntry(stock, e) ==
  [stock |-> stock, title |-> ErrorTitle(e), url |-> "", publisher |-> "",
   published |-> "", description |-> ""]

\* fetch_body with the handler of line 81 returning the results built so far.
fetch_body_partial(stock, resp) ==
  IF resp.exc # NoExc
  THEN <<>>
  ELSE LET good == {i \in 1..Len(resp.raw) : \A j \in 1..i : resp.raw[j].dict}
       IN  [i \in 1..Cardinality(good) |-> Article(stock, resp.raw[i])]

\* Lines 51-83: the body of fetch_news_for_stock, given what get_news does.
fetch_body(stock, resp) ==
  IF resp.exc # NoExc
  THEN <<ErrorEntry(stock, resp.exc)>>
  ELSE IF \E i \in 1..Len(resp.raw) : ~resp.raw[i].dict
       THEN <<ErrorEntry(stock, "'str' object has no attribute 'get'")>>
       ELSE [i \in 1..Len(resp.raw) |-> Article(stock, resp.raw[i])]

\* Line 50 and 53: the request fetch_news_for_stock sends.
GNewsRequest(stock, period_label, max_results) ==
  [period |-> period_to_gnews_period(period_label),
   max_results |-> max_results, query |-> <<stock, "stock">>]

----------------------------------------------------------------------------
\* The table: filter, de-duplicate, sort, show, export

\* The rows of s at the indices in keep, in order.
Rows(s, keep) ==
  LET F[i \in 0..Len(s)] ==
        IF i = 0 THEN <<>>
        ELSE IF i \in keep THEN Append(F[i - 1], s[i]) ELSE F[i - 1]
  IN  F[Len(s)]

\* Line 138: df[~df["title"].str.startswith("ERROR:", na=False)]
drop_error_rows(rows) ==
  Rows(rows, {i \in 1..Len(rows) : ~startswith_ERROR(rows[i].title)})

\* DataFrame.drop_duplicates(subset=[col], keep="first"); missing values
\* compare equal to one another.
drop_duplicates(rows, col) ==
  Rows(rows, {i \in 1..Len(rows) : \A j \in 1..(i - 1) : rows[j][col] # rows[i][col]})

\* Lines 140-143.
deduplicate(rows) ==
  IF \E i \in 1..Len(rows) : rows[i].url # None
  THEN drop_duplicates(rows, "url")
  ELSE drop_duplicates(rows, "title")

RECURSIVE Perms(_)
Perms(S) ==
  IF S = {} THEN {<<>>}
  ELSE UNION {{<<x>> \o p : p \in Perms(S \ {x})} : x \in S}

\* The orders of the indices S by descending key; equal keys in any order.
RECURSIVE DescendingOrders(_, _)
DescendingOrders(key, S) ==
  IF S = {} THEN {<<>>}
  ELSE LET m == CHOOSE k \in {key[i] : i \in S} : \A i \in S : key[i] <= k
           G == {i \in S : key[i] = m}
       IN  {p \o q : p \in Perms(G), q \in DescendingOrders(key, S \ G)}

\* sort_values when the try block of line 146 fails: the order is kept.
sort_skipped(rows) == {rows}

\* Lines 147-148: sort_values(by="published_parsed", ascending=False) with the
\* default kind="quicksort", which fixes no order among equal keys, and the
\* default na_position="last", which appends the NaT rows in their order.
sort_values(rows) ==
  LET key == [i \in 1..Len(rows) |-> to_datetime(rows[i].published)]
      valid == {i \in 1..Len(rows) : key[i] # NaT}
      nat == Rows(rows, (1..Len(rows)) \ valid)
  IN  {[k \in 1..Len(p) |-> rows[p[k]]] \o nat : p \in DescendingOrders(key, valid)}

\* Lines 137-150: the tables the handler can end with for an accumulator.
FinalTables(acc) == sort_values(deduplicate(drop_error_rows(acc)))

\* The columns of pd.DataFrame(all_results): the keys of the dicts, in order.
DF_COLUMNS == <<"stock", "title", "url", "publisher", "published", "description">>

\* Line 154.
DISPLAY_COLUMNS == <<"stock", "title", "publisher", "published", "url", "description">>

\* to_csv writes a missing value as the empty field.
CsvField(v) == IF v = None THEN "" ELSE v

\* Line 157: df.to_csv(index=False)
to_csv(rows) ==
  <<DF_COLUMNS>> \o
  [i \in 1..Len(rows) |-> [c \in 1..Len(DF_COLUMNS) |-> CsvField(rows[i][DF_COLUMNS[c]])]]

\* Line 154: df[[...]].reset_index(drop=True)
displayed(rows) ==
  [i \in 1..Len(rows) |-> [c \in 1..Len(DISPLAY_COLUMNS) |-> rows[i][DISPLAY_COLUMNS[c]]]]

----------------------------------------------------------------------------
\* State

VARIABLES
  pc,            \* where the script is: "idle", "announce", "fetch", "progress",
                 \* "finish"; "call" and "returned" for a direct call (SpecFn)
  clicks,        \* presses of "Fetch News" so far
  period,        \* st.radio
  selected,      \* st.multiselect
  max_results,   \* st.number_input
  placeholder,   \* the st.empty() slot: <<>> or <<message>>
  progress_bar,  \* the st.progress element: <<>> or <<percent>>
  all_results,   \* line 120
  total,         \* line 121
  idx,           \* line 122
  items,         \* line 124: what the last call of fetch_news_for_stock returned
  cache,         \* st.cache_data: (stock, period_label, max_results) -> result
  backend_log,   \* history: the get_news calls made, with what each did
  trace,         \* history: what the running handler has done, in order
  df,            \* the final DataFrame's rows
  view,          \* what the page shows: "start", "warning", "running", "info", "table"
  shown,         \* st.dataframe's rows
  csv,           \* the download button's data: header and rows
  args           \* the arguments of a direct call (SpecFn)

vars ==
  <<pc, clicks, period, selected, max_results, placeholder, progress_bar,
    all_results, total, idx, items, cache, backend_log, trace, df, view,
    shown, csv, args>>

Stocks == Range(FNO_STOCKS)

\* st.multiselect: distinct options, in the order they were chosen.
Selections == {s \in SeqsUpTo(Stocks, Len(FNO_STOCKS)) : \A i, j \in 1..Len(s) : i # j => s[i] # s[j]}

NoResp == [exc |-> NoExc, raw |-> <<>>]

NoArgs == [stock |-> None, period_label |-> None, max_results |-> 0]

\* An entry of trace; called: the fetch went to the backend, not to the cache.
Event(ev, stock, index, tot, pct, called) ==
  [ev |-> ev, stock |-> stock, index |-> index, total |-> tot, pct |-> pct,
   called |-> called]

\* Line 123: placeholder.info(f"Fetching news for: {stock}  ({idx+1}/{total})")
info_message(stock, i, tot) == [stock |-> stock, index |-> i + 1, total |-> tot]

\* progress_value reporting the stocks done before this one.
progress_value_before(i, tot) == (i * 100) \div tot

\* Line 127: progress_bar.progress(int(((idx + 1) / total) * 100)).  For every
\* total up to 34 the float expression equals this integer division.
progress_value(i, tot) == ((i + 1) * 100) \div tot

Init ==
  /\ pc = "idle"
  /\ clicks = 0
  /\ period = PERIOD_OPTIONS[1]
  /\ selected = FNO_STOCKS
  /\ max_results = 30
  /\ placeholder = <<>>
  /\ progress_bar = <<>>
  /\ all_results = <<>>
  /\ total = 0
  /\ idx = 0
  /\ items = <<>>
  /\ cache = <<>>
  /\ backend_log = <<>>
  /\ trace = <<>>
  /\ df = <<>>
  /\ view = "start"
  /\ shown = <<>>
  /\ csv = <<>>
  /\ args = NoArgs

\* Lines 42-83: one call of the cached fetch_news_for_stock; resp is what
\* get_news does if the call reaches it.
CachedCall(stock, period_label, n, resp) ==
  LET key == <<stock, period_label, n>>
  IN  IF key \in DOMAIN cache
      THEN /\ items' = cache[key]
           /\ UNCHANGED <<cache, backend_log>>
      ELSE /\ items' = fetch_body(stock, resp)
           /\ cache' = [k \in DOMAIN cache \cup {key} |->
                          IF k = key THEN items' ELSE cache[k]]
           /\ backend_log' = Append(backend_log,
                [key |-> key, request |-> GNewsRequest(stock, period_label, n),
                 resp |-> resp])

\* Lines 99-121: the user sets the widgets and presses "Fetch News".
Press(sel, per, n) ==
  /\ pc = "idle"
  /\ clicks' = clicks + 1
  /\ period' = per
  /\ selected' = sel
  /\ max_results' = n
  /\ all_results' = <<>>
  /\ items' = <<>>
  /\ idx' = 0
  /\ trace' = <<>>
  /\ df' = <<>>
  /\ shown' = <<>>
  /\ csv' = <<>>
  /\ placeholder' = <<>>
  /\ IF sel = <<>>
     THEN /\ view' = "warning"
          /\ pc' = "idle"
          /\ UNCHANGED <<progress_bar, total>>
     ELSE /\ view' = "running"
          /\ progress_bar' = <<0>>
          /\ total' = Len(sel)
          /\ pc' = "announce"
  /\ UNCHANGED <<cache, backend_log, args>>

\* One press, on a fresh page.
Click ==
  /\ clicks = 0
  /\ \E sel \in Selections, per \in Range(PERIOD_OPTIONS), n \in MaxResultsChoices :
       Press(sel, per, n)

\* A press in a session of several.
ClickAgain ==
  /\ clicks < MaxClicks
  /\ \E sel \in Selections, per \in Range(PERIOD_OPTIONS), n \in MaxResultsChoices :
       Press(sel, per, n)

\* Line 123.
Announce ==
  /\ pc = "announce"
  /\ placeholder' = <<info_message(selected[idx + 1], idx, total)>>
  /\ trace' = Append(trace,
       Event("info", selected[idx + 1], idx + 1, total, 0, FALSE))
  /\ pc' = "fetch"
  /\ UNCHANGED <<clicks, period, selected, max_results, progress_bar, all_results,
                 total, idx, items, cache, backend_log, df, view, shown, csv, args>>

\* Lines 124-126.
FetchStep(resp) ==
  /\ pc = "fetch"
  /\ CachedCall(selected[idx + 1], period, max_results, resp)
  /\ all_results' = all_results \o items'
  /\ trace' = Append(trace,
       Event("fetch", selected[idx + 1], idx + 1, total, 0,
             <<selected[idx + 1], period, max_results>> \notin DOMAIN cache))
  /\ pc' = "progress"
  /\ UNCHANGED <<clicks, period, selected, max_results, placeholder, progress_bar,
                 total, idx, df, view, shown, csv, args>>

Fetch == \E resp \in Responses : FetchStep(resp)

FetchSession ==
  /\ pc = "fetch"
  /\ (<<selected[idx + 1], period, max_results>> \notin DOMAIN cache)
       => Len(backend_log) < MaxCalls
  /\ \E resp \in SessionResponses : FetchStep(resp)

\* Line 127, and the loop's next turn.
Progress ==
  /\ pc = "progress"
  /\ progress_bar' = <<progress_value(idx, total)>>
  /\ trace' = Append(trace,
       Event("progress", selected[idx + 1], idx + 1, total,
             progress_value(idx, total), FALSE))
  /\ idx' = idx + 1
  /\ pc' = IF idx + 1 < total THEN "announce" ELSE "finish"
  /\ UNCHANGED <<clicks, period, selected, max_results, placeholder, all_results,
                 total, items, cache, backend_log, df, view, shown, csv, args>>

\* Lines 129-158.
Finish ==
  /\ pc = "finish"
  /\ progress_bar' = <<>>
  /\ placeholder' = <<>>
  /\ IF all_results = <<>>
     THEN /\ view' = "info"
          /\ UNCHANGED <<df, shown, csv>>
     ELSE \E t \in FinalTables(all_results) :
            /\ df' = t
            /\ view' = "table"
            /\ shown' = displayed(t)
            /\ csv' = to_csv(t)
  /\ pc' = "idle"
  /\ UNCHANGED <<clicks, period, selected, max_results, all_results, total, idx,
                 items, cache, backend_log, trace, args>>

Next == Click \/ Announce \/ Fetch \/ Progress \/ Finish

Spec == Init /\ [][Next]_vars

\* A session: several presses sharing the cache.
NextSession == ClickAgain \/ Announce \/ FetchSession \/ Progress \/ Finish

SpecSession == Init /\ [][NextSession]_vars

\* A direct call of fetch_news_for_stock with any label.
InitFn ==
  /\ pc = "call"
  /\ args \in [stock : Stocks,
               period_label : Range(PERIOD_OPTIONS) \cup OtherLabels,
               max_results : MaxResultsChoices]
  /\ clicks = 0
  /\ period = PERIOD_OPTIONS[1]
  /\ selected = FNO_STOCKS
  /\ max_results = 30
  /\ placeholder = <<>>
  /\ progress_bar = <<>>
  /\ all_results = <<>>
  /\ total = 0
  /\ idx = 0
  /\ items = <<>>
  /\ cache = <<>>
  /\ backend_log = <<>>
  /\ trace = <<>>
  /\ df = <<>>
  /\ view = "start"
  /\ shown = <<>>
  /\ csv = <<>>

CallFetch ==
  /\ pc = "call"
  /\ \E resp \in Responses :
       CachedCall(args.stock, args.period_label, args.max_results, resp)
  /\ pc' = "returned"
  /\ UNCHANGED <<clicks, period, selected, max_results, placeholder, progress_bar,
                 all_results, total, idx, trace, df, view, shown, csv, args>>

SpecFn == InitFn /\ [][CallFetch]_vars

----------------------------------------------------------------------------
\* Properties

ExcMessages == {"HTTP Error 429", "'str' object has no attribute 'get'"}

IsErrorEntry(a) == \E e \in ExcMessages : a = ErrorEntry(a.stock, e)

IsIso(v) == \E d \in DATES : v = d.iso

InstantOf(v) == (CHOOSE d \in DATES : v = d.iso).t

RunDone == pc = "idle" /\ view \in {"info", "table"}

FetchEvents == SelectSeq(trace, LAMBDA e : e.ev = "fetch")

LoopEvents == SelectSeq(trace, LAMBDA e : e.ev \in {"fetch", "progress"})

\* What get_news did for the arguments of a fetch of the running handler.
RespOf(e) ==
  backend_log[CHOOSE i \in 1..Len(backend_log) :
                backend_log[i].key = <<e.stock, period, max_results>>].resp

\* What a fetch of the running handler returned.
RetOf(e) == cache[<<e.stock, period, max_results>>]

\* get_news raised, or returned a malformed record.
Failed(resp) ==
  \/ resp.exc # NoExc
  \/ \E i \in 1..Len(resp.raw) : ~resp.raw[i].dict

\* The backend call of a fetch raised, or returned a malformed record.
Failing(e) == e.called /\ Failed(RespOf(e))

Flatten(ss) ==
  LET F[i \in 0..Len(ss)] == IF i = 0 THEN <<>> ELSE F[i - 1] \o ss[i]
  IN  F[Len(ss)]

\* The accumulator of the run in which every failing fetch returned nothing.
ReferenceAccumulator ==
  LET F == FetchEvents
  IN  Flatten([k \in 1..Len(F) |->
                 IF ~F[k].called THEN RetOf(F[k])
                 ELSE IF Failing(F[k]) THEN fetch_body(F[k].stock, NoResp)
                 ELSE fetch_body(F[k].stock, RespOf(F[k]))])

Position(rows, r) == CHOOSE i \in 1..Len(rows) : rows[i] = r

\* C1: after a run the table holds no two rows with the same non-absent url,
\* and of the fetched articles that share a url the first fetched is the one
\* in the table.
C1_FirstFetchedUrlSurvives ==
  RunDone =>
    /\ \A i, j \in 1..Len(df) :
         (i # j /\ df[i].url # None) => df[i].url # df[j].url
    /\ \A k \in 1..Len(all_results) :
         LET a == all_results[k]
         IN  ( /\ ~IsErrorEntry(a)
               /\ a.url # None
               /\ \A j \in 1..(k - 1) :
                    IsErrorEntry(all_results[j]) \/ all_results[j].url # a.url
               /\ \E j \in (k + 1)..Len(all_results) :
                    ~IsErrorEntry(all_results[j]) /\ all_results[j].url = a.url )
             => /\ a \in Range(df)
                /\ \A r \in Range(df) : r.url = a.url => r = a

\* C2: a run with failing fetches completes, no row of the table belongs to a
\* failing stock, and the table is one the run ends with when each failing
\* fetch returns an empty sequence instead.
C2_FailureIsolation ==
  RunDone =>
    LET F == FetchEvents
        ref == ReferenceAccumulator
    IN  /\ Len(F) = Len(selected)
        /\ \A k \in 1..Len(F) :
             Failing(F[k]) => \A r \in Range(df) : r.stock # F[k].stock
        /\ \A r \in Range(df) : ~IsErrorEntry(r)
        /\ df \in (IF ref = <<>> THEN {<<>>} ELSE FinalTables(ref))

C2_Witness ==
  /\ RunDone
  /\ view = "table"
  /\ Len(selected) = 2
  /\ Failing(FetchEvents[1])
  /\ ~Failing(FetchEvents[2])
  /\ Len(df) >= 1
  /\ \A r \in Range(df) : r.stock = selected[2]

\* C3: the stocks are fetched one at a time in the selected order, each fetch
\* is followed by one progress report for (index, total) = (k, N), the
\* fraction k/N as a percentage, before the next fetch starts; the reported
\* percentage never decreases, and it is 100 at (N, N) before the table is
\* built.
C3_ProgressPerStockInOrder ==
  view \in {"running", "info", "table"} =>
    LET F == LoopEvents
        N == Len(selected)
    IN  /\ Len(F) <= 2 * N
        /\ \A j \in 1..Len(F) :
             IF j % 2 = 1
             THEN F[j].ev = "fetch" /\ F[j].stock = selected[(j + 1) \div 2]
             ELSE /\ F[j].ev = "progress"
                  /\ F[j].index = j \div 2
                  /\ F[j].total = N
                  /\ F[j].pct = ((j \div 2) * 100) \div N
                  /\ j >= 4 => F[j].pct >= F[j - 2].pct
                  /\ pc # "idle" => progress_bar # <<>> /\ progress_bar[1] >= F[j].pct
        /\ (pc = "finish" \/ RunDone) =>
             /\ Len(F) = 2 * N
             /\ F[2 * N].index = N
             /\ F[2 * N].pct = 100

C3_Witness ==
  /\ pc = "finish"
  /\ Len(selected) = 2
  /\ Len(LoopEvents) = 4
  /\ LoopEvents[2].pct = 50
  /\ LoopEvents[4].pct = 100

\* C4: in the table a row with a later timestamp stands before a row with an
\* earlier one, and every row with a timestamp stands before every row whose
\* published value is absent or an unparsed string.
C4_NewestFirstInvalidLast ==
  view = "table" =>
    \A i, j \in 1..Len(df) :
      /\ ( /\ IsIso(df[i].published)
           /\ IsIso(df[j].published)
           /\ InstantOf(df[i].published) > InstantOf(df[j].published) ) => i < j
      /\ (IsIso(df[i].published) /\ ~IsIso(df[j].published)) => i < j

C4_Witness ==
  /\ view = "table"
  /\ Len(df) = 3
  /\ IsIso(df[1].published)
  /\ IsIso(df[2].published)
  /\ InstantOf(df[1].published) > InstantOf(df[2].published)
  /\ df[3].published \in {"N/A", None}
  /\ all_results[1] = df[3]
  /\ all_results[2] = df[2]

\* C5: two rows with equal published values stand in the table in the order
\* they had in the de-duplicated accumulator.
C5_SortIsStable ==
  view = "table" =>
    LET pre == deduplicate(drop_error_rows(all_results))
    IN  \A a, b \in 1..Len(pre) :
          (a < b /\ pre[a].published = pre[b].published)
            => Position(df, pre[a]) < Position(df, pre[b])

\* The published-date value of a raw record, as the claim reads it.
RawPublished(item) ==
  IF item.published_date \notin {None, ""} THEN item.published_date ELSE item.published

\* C6: of a response without failure every record yields an article; a
\* present, parseable date value becomes its ISO-8601 form, a present,
\* unparseable one stays as it is, and a present one never becomes absent
\* or empty.
C6_DateNormalization ==
  (pc = "returned" /\ ~Failed(backend_log[1].resp)) =>
    LET raw == backend_log[1].resp.raw
    IN  /\ Len(items) = Len(raw)
        /\ \A i \in 1..Len(raw) :
             LET v == RawPublished(raw[i])
                 p == items[i].published
             IN  v \notin {None, ""} =>
                   /\ (\E d \in DATES : d.raw = v) =>
                        p = (CHOOSE d \in DATES : d.raw = v).iso
                   /\ (~\E d \in DATES : d.raw = v) => p = v
                   /\ p \notin {None, ""}

C6_Witness ==
  /\ pc = "returned"
  /\ Len(items) = 2
  /\ backend_log[1].resp.raw[1].published_date = "N/A"
  /\ items[1].published = "N/A"
  /\ backend_log[1].resp.raw[2].published = D6
  /\ items[2].published = "2024-03-06T08:00:00+00:00"

\* C7: the CSV of a table with rows has a header row, its columns are stock, title, publisher,
\* published, url, description in this order, and it has one row per row of
\* the table shown, in the same order.
C7_CsvColumnOrder ==
  (view = "table" /\ Len(df) >= 1) =>
    /\ Len(csv) = Len(shown) + 1
    /\ csv[1] = <<"stock", "title", "publisher", "published", "url", "description">>
    /\ \A i \in 1..Len(shown) :
         csv[i + 1] = [c \in 1..6 |-> CsvField(shown[i][c])]

\* C8: a call with a label other than the three options queries no backend
\* and caches nothing.
C8_InvalidPeriodFailsFast ==
  (pc = "returned" /\ args.period_label \notin Range(PERIOD_OPTIONS)) =>
    backend_log = <<>> /\ cache = <<>>

\* C9: every fetched article is in the table unless an earlier fetched
\* article has the same key: the same non-absent url when some article has a
\* url, the same title otherwise.
C9_OnlyDuplicatesDropped ==
  RunDone =>
    LET acc == all_results
        genuine == {k \in 1..Len(acc) : ~IsErrorEntry(acc[k])}
        byUrl == \E k \in genuine : acc[k].url # None
        dup(k) == \E j \in genuine :
                    /\ j < k
                    /\ IF byUrl
                       THEN acc[k].url # None /\ acc[j].url = acc[k].url
                       ELSE acc[j].title = acc[k].title
    IN  \A k \in genuine : ~dup(k) => acc[k] \in Range(df)

\* C10: the backend is queried at most once per (stock, period, max_results),
\* a later fetch with the same arguments returns what the first returned, and
\* no failed fetch is served from the cache.
C10_CacheServesNoFailure ==
  /\ \A i, j \in 1..Len(backend_log) :
       i # j => backend_log[i].key # backend_log[j].key
  /\ \A k \in 1..Len(FetchEvents) :
       LET e == FetchEvents[k]
       IN  /\ \E i \in 1..Len(backend_log) :
                /\ backend_log[i].key = <<e.stock, period, max_results>>
                /\ RetOf(e) = fetch_body(e.stock, backend_log[i].resp)
           /\ ~e.called => \A r \in Range(RetOf(e)) : ~IsErrorEntry(r)

====
